---- MODULE Spec2Model ----
(***************************************************************************)
(* Host runtime that sells hosting days to a sandboxed guest module:       *)
(* checked money arithmetic (money.rs), the order_hosting operation, the   *)
(* error-code mapping of the order_hosting capability, and import          *)
(* resolution / instantiation (main.rs).                                   *)
(*                                                                         *)
(* Rust's i64, i32 and u32 values are kept at their real widths.  TLC's    *)
(* own integers are 32 bits wide, so a machine integer is represented      *)
(* exactly as a sign and a magnitude, the magnitude being a little-endian  *)
(* sequence of base-Base digits without leading zero digits.               *)
(***************************************************************************)
EXTENDS Integers, Sequences, FiniteSets, TLC

\* ------------------------------------------------------------------------
\* Exact integers
\* ------------------------------------------------------------------------
Base == 10000

Z(neg, mag) == [neg |-> neg, mag |-> mag]
Zero == Z(FALSE, <<>>)

RECURSIVE Norm(_)
\* drop the high-order zero digits of a magnitude
Norm(m) ==
  IF m = <<>> THEN <<>>
  ELSE IF m[Len(m)] = 0 THEN Norm(SubSeq(m, 1, Len(m) - 1))
  ELSE m

RECURSIVE MagOfNat(_)
MagOfNat(n) == IF n = 0 THEN <<>> ELSE <<n % Base>> \o MagOfNat(n \div Base)

\* the exact integer of a small literal
Lit(n) == IF n < 0 THEN Z(TRUE, MagOfNat(-n)) ELSE Z(FALSE, MagOfNat(n))

RECURSIVE MagCmpFrom(_, _, _)
\* compare two magnitudes of equal length from digit i downwards
MagCmpFrom(a, b, i) ==
  IF i = 0 THEN 0
  ELSE IF a[i] < b[i] THEN -1
  ELSE IF a[i] > b[i] THEN 1
  ELSE MagCmpFrom(a, b, i - 1)

MagCmp(a, b) ==
  IF Len(a) < Len(b) THEN -1
  ELSE IF Len(a) > Len(b) THEN 1
  ELSE MagCmpFrom(a, b, Len(a))

RECURSIVE MagAddC(_, _, _)
MagAddC(a, b, c) ==
  IF a = <<>> /\ b = <<>> THEN (IF c = 0 THEN <<>> ELSE <<c>>)
  ELSE LET da == IF a = <<>> THEN 0 ELSE Head(a)
           db == IF b = <<>> THEN 0 ELSE Head(b)
           ta == IF a = <<>> THEN <<>> ELSE Tail(a)
           tb == IF b = <<>> THEN <<>> ELSE Tail(b)
           s  == da + db + c
       IN  <<s % Base>> \o MagAddC(ta, tb, s \div Base)

MagAdd(a, b) == MagAddC(a, b, 0)

RECURSIVE MagSubB(_, _, _)
\* a - b - borrow for magnitudes with a >= b
MagSubB(a, b, w) ==
  IF a = <<>> THEN <<>>
  ELSE LET db == IF b = <<>> THEN 0 ELSE Head(b)
           tb == IF b = <<>> THEN <<>> ELSE Tail(b)
           s  == Head(a) - db - w
       IN  IF s < 0 THEN <<s + Base>> \o MagSubB(Tail(a), tb, 1)
           ELSE <<s>> \o MagSubB(Tail(a), tb, 0)

MagSub(a, b) == Norm(MagSubB(a, b, 0))

RECURSIVE MagMulDigit(_, _, _)
MagMulDigit(a, d, c) ==
  IF a = <<>> THEN (IF c = 0 THEN <<>> ELSE <<c % Base>> \o MagMulDigit(<<>>, d, c \div Base))
  ELSE LET p == Head(a) * d + c
       IN  <<p % Base>> \o MagMulDigit(Tail(a), d, p \div Base)

RECURSIVE MagMul(_, _)
MagMul(a, b) ==
  IF a = <<>> \/ b = <<>> THEN <<>>
  ELSE Norm(MagAdd(MagMulDigit(a, Head(b), 0), <<0>> \o MagMul(a, Tail(b))))

ZNeg(x) == IF x.mag = <<>> THEN x ELSE Z(~x.neg, x.mag)

ZAdd(x, y) ==
  IF x.neg = y.neg THEN Z(x.neg, MagAdd(x.mag, y.mag))
  ELSE LET c == MagCmp(x.mag, y.mag)
       IN  IF c = 0 THEN Zero
           ELSE IF c > 0 THEN Z(x.neg, MagSub(x.mag, y.mag))
           ELSE Z(y.neg, MagSub(y.mag, x.mag))

ZSub(x, y) == ZAdd(x, ZNeg(y))

ZMul(x, y) ==
  LET m == MagMul(x.mag, y.mag)
  IN  IF m = <<>> THEN Zero ELSE Z(x.neg # y.neg, m)

ZLt(x, y) ==
  IF x.neg # y.neg THEN x.neg
  ELSE IF x.neg THEN MagCmp(x.mag, y.mag) > 0
  ELSE MagCmp(x.mag, y.mag) < 0

ZLeq(x, y) == x = y \/ ZLt(x, y)

\* ------------------------------------------------------------------------
\* Machine integer ranges
\* ------------------------------------------------------------------------
I64_MAX == Z(FALSE, <<5807, 5477, 368, 3372, 922>>)   \*  9223372036854775807
I64_MIN == Z(TRUE,  <<5808, 5477, 368, 3372, 922>>)   \* -9223372036854775808
I32_MAX == Z(FALSE, <<3647, 4748, 21>>)               \*  2147483647
I32_MIN == Z(TRUE,  <<3648, 4748, 21>>)               \* -2147483648
U32_MAX == Z(FALSE, <<7295, 9496, 42>>)               \*  4294967295
TwoPow32 == Z(FALSE, <<7296, 9496, 42>>)              \*  4294967296

InI64(x) == ZLeq(I64_MIN, x) /\ ZLeq(x, I64_MAX)
InI32(x) == ZLeq(I32_MIN, x) /\ ZLeq(x, I32_MAX)
InU32(x) == ZLeq(Zero, x) /\ ZLeq(x, U32_MAX)

None == [tag |-> "None", val |-> Zero, err |-> "-"]
Some(v) == [tag |-> "Some", val |-> v, err |-> "-"]
Ok(v) == [tag |-> "Ok", val |-> v, err |-> "-"]
Err(e) == [tag |-> "Err", val |-> Zero, err |-> e]

\* i64::checked_mul
checked_mul(a, b) == LET p == ZMul(a, b) IN IF InI64(p) THEN Some(p) ELSE None

\* i64::checked_sub
checked_sub(a, b) == LET d == ZSub(a, b) IN IF InI64(d) THEN Some(d) ELSE None

\* `rhs as i64` of an i32: sign extension, the value is kept
i32_as_i64(v) == v

\* `days as u32` of an i32: reinterpretation modulo 2^32
i32_as_u32(v) == IF v.neg THEN ZAdd(v, TwoPow32) ELSE v

\* ------------------------------------------------------------------------
\* money.rs
\* ------------------------------------------------------------------------
from_cents(v) == v

to_cents_as_i64(m) == m

\* impl Mul<i64> for MoneyUnit
mul_i64(self, rhs) == checked_mul(self, rhs)

\* mul_i32 with the product checked against the i32 range of its argument
mul_i32_narrow(self, rhs) ==
  LET p == ZMul(self, rhs) IN IF InI32(p) THEN Some(p) ELSE None

\* impl Mul<i32> for MoneyUnit
mul_i32(self, rhs) == checked_mul(self, i32_as_i64(rhs))

\* sub without the check of the sign of the result
sub_unguarded(self, rhs) ==
  IF ZLt(self, Zero) THEN Err("NegativeBalance")
  ELSE LET res == checked_sub(self, rhs)
       IN  IF res = None THEN Err("BalanceWouldUnderflow") ELSE Ok(res.val)

\* sub with the error kinds of its last two checks exchanged
sub_swapped_kinds(self, rhs) ==
  IF ZLt(self, Zero) THEN Err("NegativeBalance")
  ELSE LET res == checked_sub(self, rhs)
       IN  IF res = None THEN Err("BalanceWouldBecomeNegative")
           ELSE IF ZLt(res.val, Zero) THEN Err("BalanceWouldUnderflow")
           ELSE Ok(res.val)

\* sub with the subtraction checked before the sign of the minuend
sub_checked_first(self, rhs) ==
  LET res == checked_sub(self, rhs)
  IN  IF res = None THEN Err("BalanceWouldUnderflow")
      ELSE IF ZLt(self, Zero) THEN Err("NegativeBalance")
      ELSE IF ZLt(res.val, Zero) THEN Err("BalanceWouldBecomeNegative")
      ELSE Ok(res.val)

\* impl Sub<Self> for MoneyUnit
sub(self, rhs) ==
  IF ZLt(self, Zero) THEN Err("NegativeBalance")
  ELSE LET res == checked_sub(self, rhs)
       IN  IF res = None THEN Err("BalanceWouldUnderflow")
           ELSE IF ZLt(res.val, Zero) THEN Err("BalanceWouldBecomeNegative")
           ELSE Ok(res.val)

\* ------------------------------------------------------------------------
\* main.rs: errors, user data, order_hosting
\* ------------------------------------------------------------------------
\* enum Error, in declaration order (the order Error::iter() yields)
Error ==
  << "InvalidArgumentValue", "TotalCostExceededMaxValue", "NegativeBalance",
     "BalanceWouldBecomeNegative", "BalanceWouldUnderflow", "UnknownImport" >>

UserData(balance, hosting_days_left) ==
  [balance |-> balance, hosting_days_left |-> hosting_days_left]

PRICE_PER_DAY == from_cents(Lit(100))

\* the unwinding of a panic: the call produces no Result
Panic == [tag |-> "Panic", val |-> Zero, err |-> "-"]

\* order_hosting that lets days = 0 through its argument check
order_hosting_lt(ud, days, oc) ==
  IF ZLt(days, Zero)
  THEN [res |-> Err("InvalidArgumentValue"), ud |-> ud]
  ELSE LET total_cost == mul_i32(PRICE_PER_DAY, days)
       IN  IF total_cost = None
           THEN [res |-> Err("TotalCostExceededMaxValue"), ud |-> ud]
           ELSE LET diff == sub(ud.balance, total_cost.val)
                IN  IF diff.tag = "Err"
                    THEN [res |-> diff, ud |-> ud]
                    ELSE LET debited == [ud EXCEPT !.balance = diff.val]
                             sum == ZAdd(debited.hosting_days_left, i32_as_u32(days))
                         IN  IF InU32(sum)
                             THEN [res |-> Ok(Zero),
                                   ud |-> [debited EXCEPT !.hosting_days_left = sum]]
                             ELSE IF oc
                             THEN [res |-> Panic, ud |-> debited]
                             ELSE [res |-> Ok(Zero),
                                   ud |-> [debited EXCEPT !.hosting_days_left =
                                             ZSub(sum, TwoPow32)]]

\* fn order_hosting.  `hosting_days_left += days as u32` is a u32 addition
\* whose sum may exceed u32::MAX: a build with overflow checks (oc) panics
\* there, a build without them wraps.  Yields the Result of the call and the
\* record the call leaves behind.
order_hosting(ud, days, oc) ==
  IF ZLeq(days, Zero)
  THEN [res |-> Err("InvalidArgumentValue"), ud |-> ud]
  ELSE LET total_cost == mul_i32(PRICE_PER_DAY, days)
       IN  IF total_cost = None
           THEN [res |-> Err("TotalCostExceededMaxValue"), ud |-> ud]
           ELSE LET diff == sub(ud.balance, total_cost.val)
                IN  IF diff.tag = "Err"
                    THEN [res |-> diff, ud |-> ud]
                    ELSE LET debited == [ud EXCEPT !.balance = diff.val]
                             sum == ZAdd(debited.hosting_days_left, i32_as_u32(days))
                         IN  IF InU32(sum)
                             THEN [res |-> Ok(Zero),
                                   ud |-> [debited EXCEPT !.hosting_days_left = sum]]
                             ELSE IF oc
                             THEN [res |-> Panic, ud |-> debited]
                             ELSE [res |-> Ok(Zero),
                                   ud |-> [debited EXCEPT !.hosting_days_left =
                                             ZSub(sum, TwoPow32)]]

\* error_code that hands out the 0-based position
error_code_zero_based(e) ==
  LET p == CHOOSE q \in 1..Len(Error) :
             Error[q] = e /\ \A r \in 1..(q - 1) : Error[r] # e
      i == p - 1
  IN  i

\* Error::iter().map(discriminant).enumerate().find_map(|(i, d)| d == discr => i + 1)
error_code(e) ==
  LET p == CHOOSE q \in 1..Len(Error) :
             Error[q] = e /\ \A r \in 1..(q - 1) : Error[r] # e
      i == p - 1
  IN  i + 1

\* the value the "order_hosting" host function hands back: `ret as i32`
order_hosting_ret(res) ==
  IF res.tag = "Ok" THEN Lit(0) ELSE Lit(error_code(res.err))

\* ------------------------------------------------------------------------
\* main.rs: import resolution and instantiation
\* ------------------------------------------------------------------------
ImportType(module, name, ty) == [module |-> module, name |-> name, ty |-> ty]

\* what wasmtime_wasi::add_to_linker defines in the linker (a sample of it)
LinkerDefs ==
  { ImportType("wasi_snapshot_preview1", "proc_exit", "(i32)->()"),
    ImportType("wasi_snapshot_preview1", "sched_yield", "()->i32") }

NoExtern == [tag |-> "None", src |-> "-", name |-> "-", ty |-> "-"]
Extern(src, name, ty) == [tag |-> "Some", src |-> src, name |-> name, ty |-> ty]

\* Linker::get_by_import: lookup by module and name
get_by_import(import) ==
  IF \E d \in LinkerDefs : d.module = import.module /\ d.name = import.name
  THEN LET d == CHOOSE d \in LinkerDefs :
                  d.module = import.module /\ d.name = import.name
       IN  Extern("linker", d.name, d.ty)
  ELSE NoExtern

resolve_or_construct_import(import) ==
  IF import.module # "host" THEN get_by_import(import)
  ELSE IF import.name = "balance" THEN Extern("host", "balance", "()->i64")
  ELSE IF import.name = "order_hosting" THEN Extern("host", "order_hosting", "(i32)->i32")
  ELSE NoExtern

\* instantiation that skips the imports it cannot resolve
instantiate_skipping_unresolved(module) ==
  LET n == Len(module)
      r == [i \in 1..n |-> resolve_or_construct_import(module[i])]
      done == SelectSeq(r, LAMBDA x : x # NoExtern)
  IN  [tag |-> "Ok", err |-> "-", externs |-> done]

\* fn instantiate_services_management_module, with main's unwrap of its
\* result.  The lazy map/collect stops at the first unresolved import, so
\* only the imports before it were resolved (and their host functions created
\* in the store).  Instance::new rejects an extern whose type differs from the
\* declared one, and the unwrap at that call panics.
instantiate_services_management_module(module) ==
  LET n == Len(module)
      r == [i \in 1..n |-> resolve_or_construct_import(module[i])]
      bad == {i \in 1..n : r[i] = NoExtern}
      stop == IF bad = {} THEN n ELSE (CHOOSE i \in bad : \A j \in bad : i <= j) - 1
      done == SubSeq(r, 1, stop)
  IN  IF bad # {} THEN [tag |-> "Err", err |-> "UnknownImport", externs |-> done]
      ELSE IF \E i \in 1..n : r[i].ty # module[i].ty
      THEN [tag |-> "Panic", err |-> "-", externs |-> done]
      ELSE [tag |-> "Ok", err |-> "-", externs |-> done]

NoInstance == [tag |-> "-", err |-> "-", externs |-> <<>>]

\* the imports of the guest module in main's wat text
WatImports ==
  << ImportType("host", "balance", "()->i64"),
     ImportType("host", "order_hosting", "(i32)->i32") >>

\* ------------------------------------------------------------------------
\* Bounds and input samples
\* ------------------------------------------------------------------------
MaxImports == 2
MaxCalls == 3
MaxFnCalls == 2

ImportSamples ==
  { ImportType("host", "balance", "()->i64"),
    ImportType("host", "order_hosting", "(i32)->i32"),
    ImportType("host", "refund", "(i32)->i32"),
    ImportType("host", "balance", "(i32)->i32"),
    ImportType("wasi_snapshot_preview1", "proc_exit", "(i32)->()"),
    ImportType("env", "balance", "()->i64") }

ImportLists == UNION { [1..k -> ImportSamples] : k \in 0..MaxImports }

\* i32 arguments a guest may pass
DaysSamples == { I32_MIN, Lit(-5), Zero, Lit(1), Lit(5), Lit(30), I32_MAX }

\* balances the account initialisation may supply
InitBalances == { Zero, Lit(100), Lit(100000), I64_MAX }

\* i64 values, around every threshold of the money arithmetic
I64Samples ==
  { I64_MIN, ZNeg(I64_MAX), Lit(-100), Lit(-1), Zero, Lit(1), Lit(99), Lit(100),
    Lit(499), Lit(500), Lit(100000),
    ZSub(ZMul(Lit(100), I32_MAX), Lit(1)), ZMul(Lit(100), I32_MAX),
    ZSub(I64_MAX, Lit(1)), I64_MAX }

\* u32 values of hosting_days_left
U32Samples == { Zero, Lit(1), ZSub(U32_MAX, Lit(30)), ZSub(U32_MAX, Lit(1)), U32_MAX }

\* ------------------------------------------------------------------------
\* State
\* ------------------------------------------------------------------------
VARIABLES
  overflow_checks,  \* build profile: does integer overflow panic
  user_data,        \* State.user_data: HashMap<UserId, UserData>
  module,           \* the declared imports of the guest module
  pc,               \* "main", "guest", "returned", "panicked"
  instance,         \* outcome of instantiation
  calls,            \* host calls the guest has made
  last,             \* the latest host call
  prev,             \* the host call before it
  run_result,       \* what run returned to main
  m_a, m_b, m_op, m_out   \* operands and outcome of one money operation

vars == << overflow_checks, user_data, module, pc, instance, calls, last, prev,
           run_result, m_a, m_b, m_op, m_out >>

sysvars == << overflow_checks, user_data, module, pc, instance, calls, last, prev,
              run_result >>
moneyvars == << m_a, m_b, m_op, m_out >>

\* UserId(0), the user main creates and binds the capabilities to
user == 0
UserIds == {user}

CallRec(op, days, pre, post, res, ret) ==
  [op |-> op, days |-> days, pre |-> pre, post |-> post, res |-> res, ret |-> ret]

NoRes == [tag |-> "-", val |-> Zero, err |-> "-"]
NoCall == CallRec("none", Zero, UserData(Zero, Zero), UserData(Zero, Zero), NoRes, Zero)

MoneyIdle == m_a = Zero /\ m_b = Zero /\ m_op = "-" /\ m_out = NoRes

\* main up to the construction of the store
Init ==
  /\ overflow_checks \in BOOLEAN
  /\ \E b \in InitBalances : user_data = [u \in UserIds |-> UserData(from_cents(b), Zero)]
  /\ module \in ImportLists
  /\ pc = "main"
  /\ instance = NoInstance
  /\ calls = 0
  /\ last = NoCall
  /\ prev = NoCall
  /\ run_result = None
  /\ MoneyIdle

HasExtern(name) ==
  \E i \in 1..Len(instance.externs) :
    instance.externs[i].src = "host" /\ instance.externs[i].name = name

\* main.rs:155-156
Instantiate ==
  /\ pc = "main"
  /\ instance' = instantiate_services_management_module(module)
  /\ pc' = IF instance'.tag = "Ok" THEN "guest" ELSE "panicked"
  /\ UNCHANGED << overflow_checks, user_data, module, calls, last, prev, run_result >>
  /\ UNCHANGED moneyvars

\* the guest calls its "balance" import
HostBalance ==
  /\ pc = "guest"
  /\ HasExtern("balance")
  /\ LET ud == user_data[user]
     IN  last' = CallRec("balance", Zero, ud, ud, NoRes, to_cents_as_i64(ud.balance))
  /\ prev' = last
  /\ calls' = calls + 1
  /\ UNCHANGED << overflow_checks, user_data, module, pc, instance, run_result >>
  /\ UNCHANGED moneyvars

\* the guest calls its "order_hosting" import
HostOrderHosting(days) ==
  /\ pc = "guest"
  /\ HasExtern("order_hosting")
  /\ LET ud == user_data[user]
         r == order_hosting(ud, days, overflow_checks)
     IN  /\ user_data' = [user_data EXCEPT ![user] = r.ud]
         /\ last' = CallRec("order_hosting", days, ud, r.ud, r.res,
                            IF r.res = Panic THEN Zero ELSE order_hosting_ret(r.res))
         /\ pc' = IF r.res = Panic THEN "panicked" ELSE pc
  /\ prev' = last
  /\ calls' = calls + 1
  /\ UNCHANGED << overflow_checks, module, instance, run_result >>
  /\ UNCHANGED moneyvars

\* the guest calls an import the linker resolved; it does not touch user data
LinkedCall ==
  /\ pc = "guest"
  /\ \E i \in 1..Len(instance.externs) : instance.externs[i].src = "linker"
  /\ LET ud == user_data[user]
     IN  last' = CallRec("linked", Zero, ud, ud, NoRes, Zero)
  /\ prev' = last
  /\ calls' = calls + 1
  /\ UNCHANGED << overflow_checks, user_data, module, pc, instance, run_result >>
  /\ UNCHANGED moneyvars

\* run returns the value on top of the guest's stack to main
GuestReturn ==
  /\ pc = "guest"
  /\ pc' = "returned"
  /\ run_result' = Some(last.ret)
  /\ UNCHANGED << overflow_checks, user_data, module, instance, calls, last, prev >>
  /\ UNCHANGED moneyvars

Next ==
  \/ Instantiate
  \/ (calls < MaxCalls /\ HostBalance)
  \/ (calls < MaxCalls /\ \E days \in DaysSamples : HostOrderHosting(days))
  \/ (calls < MaxCalls /\ LinkedCall)
  \/ GuestReturn

Spec == Init /\ [][Next]_vars

\* ------------------------------------------------------------------------
\* The two capabilities applied to an arbitrary user record: the guest of
\* main's wat text, instantiated, over any UserData the types admit.
\* ------------------------------------------------------------------------
InitFn ==
  /\ overflow_checks \in BOOLEAN
  /\ \E b \in I64Samples, h \in U32Samples :
       user_data = [u \in UserIds |-> UserData(from_cents(b), h)]
  /\ module = WatImports
  /\ instance = instantiate_services_management_module(WatImports)
  /\ pc = "guest"
  /\ calls = 0
  /\ last = NoCall
  /\ prev = NoCall
  /\ run_result = None
  /\ MoneyIdle

NextFn ==
  \/ (calls < MaxFnCalls /\ HostBalance)
  \/ (calls < MaxFnCalls /\ \E days \in DaysSamples : HostOrderHosting(days))

SpecFn == InitFn /\ [][NextFn]_vars

\* ------------------------------------------------------------------------
\* One operation of money.rs applied to arbitrary operands
\* ------------------------------------------------------------------------
InitMoney ==
  /\ m_a \in I64Samples
  /\ m_b \in I64Samples
  /\ m_op = "-"
  /\ m_out = NoRes
  /\ overflow_checks = FALSE
  /\ user_data = [u \in UserIds |-> UserData(Zero, Zero)]
  /\ module = <<>>
  /\ instance = NoInstance
  /\ pc = "money"
  /\ calls = 0
  /\ last = NoCall
  /\ prev = NoCall
  /\ run_result = None

ApplySub ==
  /\ m_op = "-"
  /\ m_op' = "sub"
  /\ m_out' = sub(from_cents(m_a), from_cents(m_b))
  /\ UNCHANGED << m_a, m_b >>
  /\ UNCHANGED sysvars

ApplyMulI64 ==
  /\ m_op = "-"
  /\ m_op' = "mul_i64"
  /\ m_out' = mul_i64(from_cents(m_a), m_b)
  /\ UNCHANGED << m_a, m_b >>
  /\ UNCHANGED sysvars

ApplyMulI32 ==
  /\ m_op = "-"
  /\ InI32(m_b)
  /\ m_op' = "mul_i32"
  /\ m_out' = mul_i32(from_cents(m_a), m_b)
  /\ UNCHANGED << m_a, m_b >>
  /\ UNCHANGED sysvars

NextMoney == ApplySub \/ ApplyMulI64 \/ ApplyMulI32

SpecMoney == InitMoney /\ [][NextMoney]_vars

\* ------------------------------------------------------------------------
\* Properties
\* ------------------------------------------------------------------------
IsOrder(c) == c.op = "order_hosting"
Positive(days) == ZLt(Zero, days)
\* the price of a number of days, as a mathematical integer
Cost(days) == ZMul(Lit(100), days)
Stored == user_data[user]

\* C1: a successful order (days > 0, balance >= 100*days) returns success,
\* lowers the balance by exactly 100*days and raises hosting_days_left by
\* exactly days; from balance 100000, order_hosting(30) returns 0 and the
\* following balance call returns 97000.
C1_OrderSucceedsExactly ==
  /\ (IsOrder(last) /\ Positive(last.days)
        /\ ZLeq(Cost(last.days), last.pre.balance))
     => /\ last.res = Ok(Zero)
        /\ last.ret = Lit(0)
        /\ last.post.balance = ZSub(last.pre.balance, Cost(last.days))
        /\ last.post.hosting_days_left = ZAdd(last.pre.hosting_days_left, last.days)
        /\ Stored = last.post
  /\ (last.op = "balance" /\ IsOrder(prev) /\ prev.days = Lit(30)
        /\ prev.pre.balance = Lit(100000))
     => (prev.ret = Lit(0) /\ last.ret = Lit(97000))

\* C2: one order_hosting call is atomic: afterwards either balance and
\* hosting_days_left were both updated and the call reported success, or
\* neither changed.
C2_OrderAtomic ==
  IsOrder(last) =>
    /\ Stored = last.post
    /\ \/ last.post = last.pre
       \/ /\ last.res = Ok(Zero)
          /\ last.post.balance # last.pre.balance
          /\ last.post.hosting_days_left # last.pre.hosting_days_left

\* C3: from a non-negative initial balance, the stored balance stays
\* non-negative and inside the i64 range after any sequence of host calls.
C3_BalanceNeverNegative ==
  /\ ZLeq(Zero, Stored.balance)
  /\ InI64(Stored.balance)

C3_Witness ==
  /\ IsOrder(last) /\ last.res = Err("BalanceWouldBecomeNegative")
  /\ IsOrder(prev) /\ prev.res = Ok(Zero)
  /\ ZLt(Stored.balance, prev.pre.balance)

\* C4 as stated: every order with days > 0 and balance < 100*days returns
\* BalanceWouldBecomeNegative and leaves the record unchanged.
C4_Original ==
  (IsOrder(last) /\ Positive(last.days) /\ ZLt(last.pre.balance, Cost(last.days)))
  => /\ last.res = Err("BalanceWouldBecomeNegative")
     /\ last.post = last.pre
     /\ Stored = last.pre

\* C4 amended: an order with days > 0 and 0 <= balance < 100*days returns
\* BalanceWouldBecomeNegative (code 4); with a negative balance it returns
\* NegativeBalance (code 3); in both cases the record is unchanged, and from
\* balance 100 order_hosting(5) yields code 4 with the balance still 100.
C4_InsufficientBalance ==
  (IsOrder(last) /\ Positive(last.days) /\ ZLt(last.pre.balance, Cost(last.days)))
  => /\ last.res = IF ZLt(last.pre.balance, Zero)
                   THEN Err("NegativeBalance")
                   ELSE Err("BalanceWouldBecomeNegative")
     /\ last.ret = IF ZLt(last.pre.balance, Zero) THEN Lit(3) ELSE Lit(4)
     /\ last.post = last.pre
     /\ Stored = last.pre

C4_Witness ==
  /\ IsOrder(last) /\ last.days = Lit(5) /\ last.pre.balance = Lit(100)
  /\ last.ret = Lit(4)
  /\ Stored.balance = Lit(100)

\* C5: an order with days <= 0 returns InvalidArgumentValue (code 1) and
\* leaves balance and hosting_days_left unchanged; a balance call right after
\* it returns the original balance.
C5_InvalidDaysRejected ==
  /\ (IsOrder(last) /\ ZLeq(last.days, Zero))
     => /\ last.res = Err("InvalidArgumentValue")
        /\ last.ret = Lit(1)
        /\ last.post = last.pre
        /\ Stored = last.pre
  /\ (last.op = "balance" /\ IsOrder(prev) /\ ZLeq(prev.days, Zero))
     => last.ret = prev.pre.balance

C5_Witness ==
  /\ last.op = "balance" /\ IsOrder(prev) /\ prev.days = I32_MIN
  /\ prev.ret = Lit(1)
  /\ last.ret = prev.pre.balance

\* the codes the guest sees, as the documentation of the kinds lists them
CodeOf ==
  [ InvalidArgumentValue |-> 1, TotalCostExceededMaxValue |-> 2,
    NegativeBalance |-> 3, BalanceWouldBecomeNegative |-> 4,
    BalanceWouldUnderflow |-> 5, UnknownImport |-> 6 ]

\* C6: the order_hosting capability returns 0 exactly when order_hosting
\* succeeds and otherwise the 1-based position of the error kind in
\* declaration order; the mapping from kinds to codes is total, injective,
\* onto 1..6, never 0, and the same on every call.
C6_ErrorCodes ==
  /\ \A c \in {last, prev} :
       (IsOrder(c) /\ c.res # Panic)
       => /\ (c.ret = Lit(0)) <=> (c.res.tag = "Ok")
          /\ c.res.tag = "Err" => c.ret = Lit(CodeOf[c.res.err])
  /\ \A k \in DOMAIN CodeOf : error_code(k) = CodeOf[k]
  /\ {error_code(Error[i]) : i \in 1..Len(Error)} = 1..Len(Error)
  /\ \A i, j \in 1..Len(Error) :
       error_code(Error[i]) = error_code(Error[j]) => i = j
  /\ (IsOrder(last) /\ IsOrder(prev) /\ last.res.tag = "Err"
        /\ last.res = prev.res) => last.ret = prev.ret

C6_Witness ==
  /\ IsOrder(prev) /\ prev.res = Err("NegativeBalance") /\ prev.ret = Lit(3)
  /\ IsOrder(last) /\ last.res = Err("InvalidArgumentValue") /\ last.ret = Lit(1)

\* C7: a - b on money reports the first failing check of three: a < 0 gives
\* NegativeBalance whatever b is; else a - b outside the i64 range gives
\* BalanceWouldUnderflow; else a - b < 0 gives BalanceWouldBecomeNegative;
\* else the result is a - b exactly.
C7_SubChecksInOrder ==
  m_op = "sub" =>
    LET d == ZSub(m_a, m_b)
    IN  m_out = IF ZLt(m_a, Zero) THEN Err("NegativeBalance")
                ELSE IF ~InI64(d) THEN Err("BalanceWouldUnderflow")
                ELSE IF ZLt(d, Zero) THEN Err("BalanceWouldBecomeNegative")
                ELSE Ok(d)

C7_Witness ==
  /\ m_op = "sub"
  /\ ZLt(m_a, Zero) /\ ~InI64(ZSub(m_a, m_b))
  /\ m_out = Err("NegativeBalance")

\* does the resolution policy satisfy this declared import
Resolves(import) ==
  \/ /\ import.module # "host"
     /\ \E d \in LinkerDefs : d.module = import.module /\ d.name = import.name
  \/ /\ import.module = "host"
     /\ import.name \in {"balance", "order_hosting"}

\* C8: instantiation is all-or-nothing: an import resolves iff it is a
\* non-host import the linker finds or host "balance" / "order_hosting"; if
\* any declared import does not resolve, instantiation fails with
\* UnknownImport whatever else resolved, no guest code runs and no user
\* record is modified.
C8_AllOrNothing ==
  /\ \A i \in 1..Len(module) :
       (resolve_or_construct_import(module[i]) # NoExtern) <=> Resolves(module[i])
  /\ (instance # NoInstance /\ \E i \in 1..Len(module) : ~Resolves(module[i]))
     => /\ instance.tag = "Err"
        /\ instance.err = "UnknownImport"
        /\ pc = "panicked"
        /\ calls = 0 /\ last = NoCall /\ run_result = None
        /\ Stored.hosting_days_left = Zero
        /\ Stored.balance \in InitBalances
  /\ instance.tag = "Err" => \E i \in 1..Len(module) : ~Resolves(module[i])
  /\ calls > 0 => instance.tag = "Ok"

C8_Witness ==
  /\ instance.tag = "Err"
  /\ Len(module) = 2
  /\ Resolves(module[1])
  /\ module[2] = ImportType("host", "refund", "(i32)->i32")

\* C9: hosting_days_left never decreases: every step leaves the user's
\* hosting_days_left greater than or equal to its previous value.
C9_DaysNeverDecrease ==
  [][ZLeq(user_data[user].hosting_days_left, user_data'[user].hosting_days_left)]_vars

\* C10: order_hosting never returns TotalCostExceededMaxValue,
\* BalanceWouldUnderflow or UnknownImport, for any i32 days and any i64
\* balance; the capability's result is always 0, 1, 3 or 4.
C10_UnreachableKinds ==
  IsOrder(last) =>
    /\ last.res.err \notin {"TotalCostExceededMaxValue", "BalanceWouldUnderflow",
                            "UnknownImport"}
    /\ last.res # Panic => last.ret \in {Lit(0), Lit(1), Lit(3), Lit(4)}

C10_Witness ==
  /\ IsOrder(last) /\ last.days = I32_MAX /\ last.pre.balance = I64_MAX
  /\ last.res = Ok(Zero)
  /\ last.post.balance = ZSub(I64_MAX, ZMul(Lit(100), I32_MAX))

====
